---- MODULE Spec2Model ----
(***************************************************************************)
(* Model of the authenticated request/retry client of powerset            *)
(* (src/powerset/api.py): APIClient.__init__, _refresh_auth_if_needed,     *)
(* _handle_auth_failure and make_request, together with the credential     *)
(* store it calls (load_env, validate_auth, update_auth_from_fetch,        *)
(* get_auth_headers of powerset.auth) and the HTTP transport.              *)
(***************************************************************************)
EXTENDS Integers, Sequences, FiniteSets, TLC

VARIABLES
    persisted,   \* persisted environment state, the mapping load_env() reads
    marker,      \* freshness marker: mtime of the last refresh artifact applied
    artifact,    \* the refresh artifact (auth/mostRecentFetch.js)
    captures,    \* number of manual captures made so far
    client,      \* the APIClient object: state, max_retries, auth_vars
    installed,   \* history: every mapping ever assigned to self.auth_vars
    threads,     \* the threads that call make_request on the client
    ncalls,      \* number of make_request calls started
    th,          \* per thread: the frame of its make_request call
    db,          \* the tables of the DatabaseManager: the keys stored in each
    proc         \* the frame of process_site_for_database and of its caller

vars == <<persisted, marker, artifact, captures, client, installed, threads, ncalls, th,
          db, proc>>

----------------------------------------------------------------------------
(* Bounds *)

MaxMaxRetries == 3      \* max_retries is drawn from 1..MaxMaxRetries
MaxCaptures == 1        \* manual captures of a refresh artifact
MaxCalls == 2           \* make_request calls per run
MaxConcRetries == 2     \* max_retries of a client shared by two threads
MaxItems == 2           \* hardware records, and alert records, of a site

Threads == {"t1", "t2"}

----------------------------------------------------------------------------
(* Credential Sets: mappings from field names to strings *)

EmptyMapping == [k \in {} |-> ""]

Get(m, k) == IF k \in DOMAIN m THEN m[k] ELSE ""

MkCred(b, c) == [base_url |-> b, cookie |-> c, referer |-> "ref0"]

CredA == MkCred("https://a/", "ka")
CredB == MkCred("https://b/", "kb")
CredBadUrl == MkCred("not a url", "ka")     \* every field non-empty, base URL malformed
CredPartial == MkCred("https://a/", "")     \* a required header field empty
CredNoUrl == MkCred("", "kb")               \* base URL empty

CredSets == {CredA, CredB, CredBadUrl, CredPartial, CredNoUrl}

RequiredFields == {"base_url", "cookie"}

WellFormedUrl(u) == u \in {"https://a/", "https://b/"}

\* validate_auth(auth_vars): every required field non-empty and the base URL well-formed
validate_auth(m) ==
    /\ \A k \in RequiredFields : Get(m, k) # ""
    /\ WellFormedUrl(Get(m, "base_url"))

\* load_env() succeeds iff every required field of the persisted state is non-empty
LoadOk(p) == \A k \in RequiredFields : Get(p, k) # ""

\* get_auth_headers(auth_vars, referer): header mapping derived from a Credential Set
NoReferer == "None"

get_auth_headers(m, referer) ==
    [cookie |-> Get(m, "cookie"),
     referer |-> IF referer = NoReferer THEN Get(m, "referer") ELSE referer]

\* urljoin(base_url, endpoint) for an absolute-path endpoint: the endpoint
\* replaces the path of the base URL
Origin(b) ==
    IF b = "https://a/" THEN "https://a"
    ELSE IF b = "https://b/" THEN "https://b"
    ELSE ""

urljoin(b, endpoint) == [origin |-> Origin(b), path |-> endpoint]

Endpoint == "/api/x"

----------------------------------------------------------------------------
(* Methods and payloads of a request *)

Methods == {"GET", "POST", "PUT", "DELETE"}

NoPayload == [type |-> "NoneType", items |-> << >>, text |-> ""]
EmptyDict == [type |-> "dict", items |-> << >>, text |-> ""]
DictPayload == [type |-> "dict", items |-> <<"k">>, text |-> ""]
StrPayload == [type |-> "str", items |-> << >>, text |-> "{\"k\": 1}"]

Payloads == {NoPayload, EmptyDict, DictPayload, StrPayload}

\* truth value of a payload in "... and payload" (line 125)
PayloadTruthy(p) ==
    \/ p.type = "dict" /\ p.items # << >>
    \/ p.type = "str" /\ p.text # ""

\* json.dumps(payload) of a dict
json_dumps(p) ==
    [type |-> "str", items |-> << >>,
     text |-> IF p.items = << >> THEN "{}" ELSE "{\"k\": 1}"]

\* PUT left out of the list of body-bearing methods
SetsContentType_PostOnly(method, payload) == method = "POST" /\ PayloadTruthy(payload)

\* line 125: if method in ['POST', 'PUT'] and payload
SetsContentType(method, payload) == method \in {"POST", "PUT"} /\ PayloadTruthy(payload)

\* lines 125-126: headers['content-type'] = 'application/json'
WithContentType(headers, method, payload) ==
    IF SetsContentType(method, payload)
    THEN ("content-type" :> "application/json") @@ headers
    ELSE headers

\* lines 125-129: the payload as passed to session.request(data=payload)
DataSent(method, payload) ==
    IF SetsContentType(method, payload) /\ payload.type = "dict"
    THEN json_dumps(payload)
    ELSE payload

----------------------------------------------------------------------------
(* update_auth_from_fetch: apply the refresh artifact when it is newer *)

NoArtifact == [kind |-> "absent", set |-> EmptyMapping, mtime |-> 0]

Artifacts(t) ==
    {[kind |-> "malformed", set |-> EmptyMapping, mtime |-> t]}
    \cup {[kind |-> "ok", set |-> s, mtime |-> t] : s \in {CredB, CredBadUrl}}

FetchIsNewer(a, mk) == a.kind = "ok" /\ a.mtime > mk

PersistedAfterFetch(p, a, mk) == IF FetchIsNewer(a, mk) THEN a.set ELSE p

MarkerAfterFetch(a, mk) == IF FetchIsNewer(a, mk) THEN a.mtime ELSE mk

----------------------------------------------------------------------------
(* HTTP transport *)

Statuses == {200, 401, 403, 404, 418, 500, 503}

Bodies == {"{\"ok\": true}", "plain"}

IsJson(t) == t = "{\"ok\": true}"

Responses ==
    {[exc |-> FALSE, status |-> 200, text |-> b] : b \in Bodies}
    \cup {[exc |-> FALSE, status |-> s, text |-> ""] : s \in Statuses \ {200}}
    \cup {[exc |-> TRUE, status |-> 0, text |-> ""]}

----------------------------------------------------------------------------
(* Initial state *)

NoOutcome == [kind |-> "none", at |-> 0, inLoop |-> FALSE]
NoResult == [kind |-> "none", value |-> ""]

\* The frame of one make_request call.  pc is the position in the code:
\*   "idle"  no call yet            "l121"  before line 121 (url)
\*   "l122"  before line 122        "loop"  at the while test of line 132
\*   "await" request sent (138)     "l156"  _handle_auth_failure returned False
\*   "l67"   before line 67         "l68"   before line 68
\*   "done"  returned or raised
\* requests, responses, sleeps and log record what the call has done so far;
\* refreshes counts its calls of _refresh_auth_if_needed; guidance is set by
\* the print statements of lines 82-86; prev is the outcome of the previous
\* call of the same thread; payload_arg is the payload as the caller passed
\* it, payload the local that line 129 may reassign.
IdleFrame ==
    [pc |-> "idle", referer |-> NoReferer, method |-> "GET", payload |-> NoPayload,
     payload_arg |-> NoPayload,
     url |-> urljoin("", ""), headers |-> get_auth_headers(EmptyMapping, NoReferer),
     attempt |-> 0,
     requests |-> << >>, responses |-> << >>, sleeps |-> << >>, log |-> << >>,
     refreshes |-> 0, guidance |-> FALSE,
     outcome |-> NoOutcome, result |-> NoResult, prev |-> NoOutcome]

NoClient ==
    [state |-> "none", max_retries |-> 0, auth_vars |-> EmptyMapping,
     error |-> "none", at |-> "none", given |-> FALSE, arg |-> EmptyMapping,
     validated |-> EmptyMapping, loaded |-> EmptyMapping, refreshes |-> 0]

\* DatabaseManager before any insert: the tables of lines 58-104, empty
EmptyDb == [hardware |-> {}, alerts |-> {}, modeling |-> {}]

NoJsonData == [hardware |-> << >>, alerts |-> << >>, modeling |-> "empty"]

\* process_site_for_database not called yet
IdleProc ==
    [pc |-> "idle", json_data |-> NoJsonData, i |-> 0, inserts |-> << >>,
     result |-> "none", report |-> "none"]

InitEnv ==
    /\ db = EmptyDb
    /\ proc = IdleProc
    /\ persisted \in CredSets
    /\ marker = 0
    /\ artifact = NoArtifact
    /\ captures = 0
    /\ client = NoClient
    /\ installed = {}
    /\ ncalls = 0
    /\ th = [c \in Threads |-> IdleFrame]

Init == InitEnv /\ threads = {"t1"}

InitConc == InitEnv /\ threads = Threads

----------------------------------------------------------------------------
(* Conditions and values of the retry policy *)

\* line 57: "auth_vars or load_env()": None and the empty mapping are falsy
Truthy(arg) == arg.given /\ DOMAIN arg.val # {}

\* the result of load_env() dropped: self.auth_vars keeps the mapping it held
ReloadedAuth_KeepHeld(held, loaded) == held

\* line 68: the mapping assigned to self.auth_vars, given the one it held
\* and the one load_env() returned
ReloadedAuth(held, loaded) == loaded

\* the attempt counter kept from the previous call instead of reset
InitialAttempt_Carried(f) == f.prev.at

\* line 131: attempt = 0, whatever the previous call of the thread left
InitialAttempt(f) == 0

\* the loop test off by one: one iteration more than max_retries
LoopContinues_OneMore(attempt, max_retries) == attempt <= max_retries

\* line 132: while attempt < self.max_retries
LoopContinues(attempt, max_retries) == attempt < max_retries

\* the bound compared with > instead of >=
AuthRetriesExhausted_OffByOne(attempt, max_retries) == attempt > max_retries

\* line 80: if attempt >= self.max_retries
AuthRetriesExhausted(attempt, max_retries) == attempt >= max_retries

\* the exponent taken from a 0-based attempt index
AuthBackoff_ZeroBased(attempt) == 2 ^ (attempt - 1)

\* line 90: time.sleep(2 ** attempt)
AuthBackoff(attempt) == 2 ^ attempt

\* line 166: time.sleep(1)
ServerBackoff == 1

\* line 176: time.sleep(1)
TransportBackoff == 1

\* the bound compared with > instead of >=
TransportExhausted_OffByOne(attempt, max_retries) == attempt > max_retries

\* the bound check dropped: the first transport failure is re-raised
TransportExhausted_Always(attempt, max_retries) == TRUE

\* line 174: if attempt >= self.max_retries
TransportExhausted(attempt, max_retries) == attempt >= max_retries

\* the 403 branch missing: 403 falls into no terminal branch and is retried
Classify_ForbiddenRetried(status) ==
    IF status = 200 THEN "ok"
    ELSE IF status = 401 THEN "auth"
    ELSE IF status = 404 THEN "notfound"
    ELSE IF status >= 500 \/ status = 403 THEN "server"
    ELSE "other"

\* lines 147-170: the if/elif chain over response.status_code
Classify(status) ==
    IF status = 200 THEN "ok"
    ELSE IF status = 401 THEN "auth"
    ELSE IF status = 403 THEN "forbidden"
    ELSE IF status = 404 THEN "notfound"
    ELSE IF status >= 500 THEN "server"
    ELSE "other"

\* the body never parsed: response.text returned for every body
ParseBody_AlwaysText(t) == [kind |-> "text", value |-> t]

\* lines 148-151: response.json(), or response.text when the body is not JSON
ParseBody(t) ==
    IF IsJson(t) THEN [kind |-> "json", value |-> t]
    ELSE [kind |-> "text", value |-> t]

----------------------------------------------------------------------------
(* Frame updates *)

Finish(f, kind, inLoop) ==
    [f EXCEPT !.pc = "done",
              !.outcome = [kind |-> kind, at |-> f.attempt, inLoop |-> inLoop]]

Sleep(f, cause, units) ==
    [f EXCEPT !.sleeps = Append(@, [after |-> f.attempt, cause |-> cause, units |-> units])]

Log(f, level) == [f EXCEPT !.log = Append(@, level)]

\* the retry taken without the call of _refresh_auth_if_needed
HandleAuthFailure_NoRefresh(f, max_retries) ==
    IF AuthRetriesExhausted(f.attempt, max_retries)
    THEN [Log(f, "error") EXCEPT !.guidance = TRUE, !.pc = "l156"]
    ELSE [Sleep(Log(f, "warning"), "401", AuthBackoff(f.attempt)) EXCEPT !.pc = "loop"]

\* _handle_auth_failure(attempt), lines 80-90: up to its return False, or up
\* to its call of _refresh_auth_if_needed
HandleAuthFailure(f, max_retries) ==
    IF AuthRetriesExhausted(f.attempt, max_retries)
    THEN [Log(f, "error") EXCEPT !.guidance = TRUE, !.pc = "l156"]
    ELSE [Sleep(Log(f, "warning"), "401", AuthBackoff(f.attempt)) EXCEPT !.pc = "l67"]

\* the 5xx branch going through the credential refresh like the 401 branch
AfterResponse_RefreshOn5xx(f, r, max_retries) ==
    IF r.exc
    THEN IF TransportExhausted(f.attempt, max_retries)
         THEN Finish(Log(f, "error"), "Transport", TRUE)
         ELSE [Sleep(Log(f, "error"), "transport", TransportBackoff) EXCEPT !.pc = "loop"]
    ELSE CASE Classify(r.status) = "ok" ->
                [Finish(f, "Success", TRUE) EXCEPT !.result = ParseBody(r.text)]
           [] Classify(r.status) = "auth" ->
                HandleAuthFailure(Log(f, "warning"), max_retries)
           [] Classify(r.status) = "forbidden" -> Finish(f, "Forbidden", TRUE)
           [] Classify(r.status) = "notfound" -> Finish(f, "NotFound", TRUE)
           [] Classify(r.status) = "server" ->
                [Sleep(Log(f, "warning"), "5xx", ServerBackoff) EXCEPT !.pc = "l67"]
           [] OTHER -> Finish(f, "UnexpectedStatus", TRUE)

\* lines 146-176: what make_request does with the answer of the transport
AfterResponse(f, r, max_retries) ==
    IF r.exc
    THEN IF TransportExhausted(f.attempt, max_retries)
         THEN Finish(Log(f, "error"), "Transport", TRUE)
         ELSE [Sleep(Log(f, "error"), "transport", TransportBackoff) EXCEPT !.pc = "loop"]
    ELSE CASE Classify(r.status) = "ok" ->
                [Finish(f, "Success", TRUE) EXCEPT !.result = ParseBody(r.text)]
           [] Classify(r.status) = "auth" ->
                HandleAuthFailure(Log(f, "warning"), max_retries)
           [] Classify(r.status) = "forbidden" -> Finish(f, "Forbidden", TRUE)
           [] Classify(r.status) = "notfound" -> Finish(f, "NotFound", TRUE)
           [] Classify(r.status) = "server" ->
                [Sleep(Log(f, "warning"), "5xx", ServerBackoff) EXCEPT !.pc = "loop"]
           [] OTHER -> Finish(f, "UnexpectedStatus", TRUE)

----------------------------------------------------------------------------
(* Actions *)

CtorArgs ==
    {[given |-> FALSE, val |-> EmptyMapping]}
    \cup {[given |-> TRUE, val |-> m] : m \in {EmptyMapping} \cup CredSets}

Failed(arg, at) ==
    [NoClient EXCEPT !.state = "failed", !.error = "InvalidConfig", !.at = at,
                     !.given = arg.given, !.arg = arg.val]

\* APIClient.__init__(auth_vars, max_retries)
Construct(arg, mr) ==
    /\ client.state = "none"
    /\ LET auth0 == IF Truthy(arg) THEN arg.val ELSE persisted
           p2 == PersistedAfterFetch(persisted, artifact, marker)
       IN  IF ~Truthy(arg) /\ ~LoadOk(persisted)
           THEN \* load_env() of line 57 fails
                /\ client' = Failed(arg, "load")
                /\ UNCHANGED <<persisted, marker, installed>>
           ELSE IF ~validate_auth(auth0)
           THEN \* line 60
                /\ client' = [Failed(arg, "validate") EXCEPT !.auth_vars = auth0]
                /\ installed' = {auth0}
                /\ UNCHANGED <<persisted, marker>>
           ELSE \* line 63: _refresh_auth_if_needed()
                /\ persisted' = p2
                /\ marker' = MarkerAfterFetch(artifact, marker)
                /\ IF LoadOk(p2)
                   THEN /\ client' = [NoClient EXCEPT !.state = "ready", !.max_retries = mr,
                                          !.auth_vars = ReloadedAuth(auth0, p2),
                                          !.given = arg.given,
                                          !.arg = arg.val, !.validated = auth0,
                                          !.loaded = p2, !.refreshes = 1]
                        /\ installed' = {auth0, ReloadedAuth(auth0, p2)}
                   ELSE /\ client' = [Failed(arg, "reload") EXCEPT !.auth_vars = auth0,
                                          !.validated = auth0, !.refreshes = 1]
                        /\ installed' = {auth0}
    /\ UNCHANGED <<artifact, captures, threads, ncalls, th>>
    /\ UNCHANGED <<db, proc>>

\* a caller enters make_request(endpoint, method, payload, referer=ref)
Call(c, ref, method, payload) ==
    /\ c \in threads
    /\ client.state = "ready"
    /\ th[c].pc \in {"idle", "done"}
    /\ ncalls < MaxCalls
    /\ ncalls' = ncalls + 1
    /\ th' = [th EXCEPT ![c] = [IdleFrame EXCEPT !.pc = "l121", !.referer = ref,
                                                 !.method = method, !.payload = payload,
                                                 !.payload_arg = payload,
                                                 !.prev = th[c].outcome]]
    /\ UNCHANGED <<persisted, marker, artifact, captures, client, installed, threads>>
    /\ UNCHANGED <<db, proc>>

\* line 121: url = urljoin(self.auth_vars['base_url'], endpoint)
BuildUrl(c) ==
    /\ th[c].pc = "l121"
    /\ th' = [th EXCEPT ![c] = [@ EXCEPT !.pc = "l122",
                  !.url = urljoin(Get(client.auth_vars, "base_url"), Endpoint)]]
    /\ UNCHANGED <<persisted, marker, artifact, captures, client, installed, threads, ncalls>>
    /\ UNCHANGED <<db, proc>>

\* the headers kept in one mapping shared by the calls: the referer of any
\* call in progress ends up in the request
BuildHeaders_SharedReferer(c) ==
    /\ th[c].pc = "l122"
    /\ \E d \in threads :
          /\ th[d].pc # "idle"
          /\ th' = [th EXCEPT ![c] = [@ EXCEPT !.pc = "loop",
                        !.attempt = InitialAttempt(th[c]),
                        !.headers = WithContentType(get_auth_headers(client.auth_vars, th[d].referer),
                                                    th[c].method, th[c].payload),
                        !.payload = DataSent(th[c].method, th[c].payload)]]
    /\ UNCHANGED <<persisted, marker, artifact, captures, client, installed, threads, ncalls>>
    /\ UNCHANGED <<db, proc>>

\* lines 122-131: headers = get_auth_headers(self.auth_vars, referer); attempt = 0
BuildHeaders(c) ==
    /\ th[c].pc = "l122"
    /\ th' = [th EXCEPT ![c] = [@ EXCEPT !.pc = "loop",
                  !.attempt = InitialAttempt(th[c]),
                  !.headers = WithContentType(get_auth_headers(client.auth_vars, th[c].referer),
                                              th[c].method, th[c].payload),
                  !.payload = DataSent(th[c].method, th[c].payload)]]
    /\ UNCHANGED <<persisted, marker, artifact, captures, client, installed, threads, ncalls>>
    /\ UNCHANGED <<db, proc>>

\* lines 132-144: one more iteration: attempt += 1 and the request is issued
Attempt(c) ==
    /\ th[c].pc = "loop"
    /\ LoopContinues(th[c].attempt, client.max_retries)
    /\ LET f == Log(th[c], "debug")
           n == f.attempt + 1
       IN th' = [th EXCEPT ![c] = [f EXCEPT !.pc = "await", !.attempt = n,
                    !.requests = Append(@, [attempt |-> n, url |-> f.url,
                                            headers |-> f.headers,
                                            method |-> f.method, data |-> f.payload,
                                            auth |-> client.auth_vars,
                                            refreshes |-> f.refreshes])]]
    /\ UNCHANGED <<persisted, marker, artifact, captures, client, installed, threads, ncalls>>
    /\ UNCHANGED <<db, proc>>

\* line 178: the loop ended without return or raise
Fallthrough(c) ==
    /\ th[c].pc = "loop"
    /\ ~LoopContinues(th[c].attempt, client.max_retries)
    /\ th' = [th EXCEPT ![c] = Finish(@, "RetriesExhausted", FALSE)]
    /\ UNCHANGED <<persisted, marker, artifact, captures, client, installed, threads, ncalls>>
    /\ UNCHANGED <<db, proc>>

\* lines 146-176: the transport answers (or raises) and the answer is handled
Respond(c, r) ==
    /\ th[c].pc = "await"
    /\ th' = [th EXCEPT ![c] = AfterResponse([@ EXCEPT !.responses = Append(@, r)],
                                             r, client.max_retries)]
    /\ UNCHANGED <<persisted, marker, artifact, captures, client, installed, threads, ncalls>>
    /\ UNCHANGED <<db, proc>>

\* line 156: _handle_auth_failure returned False
RaiseAuthFailure(c) ==
    /\ th[c].pc = "l156"
    /\ th' = [th EXCEPT ![c] = Finish(@, "AuthExpired", TRUE)]
    /\ UNCHANGED <<persisted, marker, artifact, captures, client, installed, threads, ncalls>>
    /\ UNCHANGED <<db, proc>>

\* line 67: update_auth_from_fetch()
UpdateAuth(c) ==
    /\ th[c].pc = "l67"
    /\ persisted' = PersistedAfterFetch(persisted, artifact, marker)
    /\ marker' = MarkerAfterFetch(artifact, marker)
    /\ th' = [th EXCEPT ![c] = [@ EXCEPT !.pc = "l68", !.refreshes = @ + 1]]
    /\ UNCHANGED <<artifact, captures, client, installed, threads, ncalls>>
    /\ UNCHANGED <<db, proc>>

\* line 68: self.auth_vars = load_env()
Reload(c) ==
    /\ th[c].pc = "l68"
    /\ IF LoadOk(persisted)
       THEN /\ client' = [client EXCEPT !.auth_vars = ReloadedAuth(@, persisted)]
            /\ installed' = installed \cup {ReloadedAuth(client.auth_vars, persisted)}
            /\ th' = [th EXCEPT ![c] = [@ EXCEPT !.pc = "loop"]]
       ELSE /\ th' = [th EXCEPT ![c] = Finish(@, "InvalidConfig", TRUE)]
            /\ UNCHANGED <<client, installed>>
    /\ UNCHANGED <<persisted, marker, artifact, captures, threads, ncalls>>
    /\ UNCHANGED <<db, proc>>

\* the manual step: a new capture is pasted into the refresh artifact
Capture(a) ==
    /\ captures < MaxCaptures
    /\ captures' = captures + 1
    /\ artifact' = a
    /\ UNCHANGED <<persisted, marker, client, installed, threads, ncalls, th>>
    /\ UNCHANGED <<db, proc>>

Next ==
    \/ \E arg \in CtorArgs, mr \in 1..MaxMaxRetries : Construct(arg, mr)
    \/ \E c \in threads, ref \in {NoReferer, "ref1"} : Call(c, ref, "GET", NoPayload)
    \/ \E c \in threads : BuildUrl(c)
    \/ \E c \in threads : BuildHeaders(c)
    \/ \E c \in threads : Attempt(c)
    \/ \E c \in threads : Fallthrough(c)
    \/ \E c \in threads, r \in Responses : Respond(c, r)
    \/ \E c \in threads : RaiseAuthFailure(c)
    \/ \E c \in threads : UpdateAuth(c)
    \/ \E c \in threads : Reload(c)
    \/ \E a \in Artifacts(captures + 1) : Capture(a)

Spec == Init /\ [][Next]_vars

FairResponses ==
    {r \in Responses : (r.exc \/ r.status \in {200, 401, 404, 500}) /\ r.text # "plain"}

\* A call in progress takes its next step: the code runs on, every sleep ends,
\* and the transport answers or raises within the timeout of the request
CallStep(c) ==
    \/ BuildUrl(c)
    \/ BuildHeaders(c)
    \/ Attempt(c)
    \/ Fallthrough(c)
    \/ \E r \in FairResponses : Respond(c, r)
    \/ RaiseAuthFailure(c)
    \/ UpdateAuth(c)
    \/ Reload(c)

Fairness == \A c \in Threads : WF_vars(CallStep(c))

\* One thread; one response of each class
NextFair ==
    \/ \E arg \in CtorArgs, mr \in 1..MaxMaxRetries : Construct(arg, mr)
    \/ \E c \in threads : Call(c, NoReferer, "GET", NoPayload)
    \/ \E c \in threads : BuildUrl(c)
    \/ \E c \in threads : BuildHeaders(c)
    \/ \E c \in threads : Attempt(c)
    \/ \E c \in threads : Fallthrough(c)
    \/ \E c \in threads, r \in FairResponses : Respond(c, r)
    \/ \E c \in threads : RaiseAuthFailure(c)
    \/ \E c \in threads : UpdateAuth(c)
    \/ \E c \in threads : Reload(c)
    \/ \E a \in Artifacts(captures + 1) : Capture(a)

SpecFair == Init /\ [][NextFair]_vars /\ Fairness

\* Two threads share one client; the inputs are drawn from smaller sets
ConcResponses == {r \in Responses : ~r.exc /\ r.status \in {200, 401, 503} /\ r.text # "plain"}

NextConc ==
    \/ \E arg \in CtorArgs, mr \in 1..MaxConcRetries : Construct(arg, mr)
    \/ \E c \in threads, ref \in {NoReferer, "ref1"} : Call(c, ref, "GET", NoPayload)
    \/ \E c \in threads : BuildUrl(c)
    \/ \E c \in threads : BuildHeaders(c)
    \/ \E c \in threads : Attempt(c)
    \/ \E c \in threads : Fallthrough(c)
    \/ \E c \in threads, r \in ConcResponses : Respond(c, r)
    \/ \E c \in threads : RaiseAuthFailure(c)
    \/ \E c \in threads : UpdateAuth(c)
    \/ \E c \in threads : Reload(c)
    \/ \E a \in Artifacts(captures + 1) : Capture(a)

SpecConc == InitConc /\ [][NextConc]_vars

\* One thread; every method and payload, the other inputs from the smaller sets
NextPayload ==
    \/ \E arg \in CtorArgs, mr \in 1..MaxConcRetries : Construct(arg, mr)
    \/ \E c \in threads, m \in Methods, p \in Payloads : Call(c, NoReferer, m, p)
    \/ \E c \in threads : BuildUrl(c)
    \/ \E c \in threads : BuildHeaders(c)
    \/ \E c \in threads : Attempt(c)
    \/ \E c \in threads : Fallthrough(c)
    \/ \E c \in threads, r \in ConcResponses : Respond(c, r)
    \/ \E c \in threads : RaiseAuthFailure(c)
    \/ \E c \in threads : UpdateAuth(c)
    \/ \E c \in threads : Reload(c)
    \/ \E a \in Artifacts(captures + 1) : Capture(a)

SpecPayload == Init /\ [][NextPayload]_vars

----------------------------------------------------------------------------
(* Properties *)

Is401(r) == ~r.exc /\ r.status = 401
Is5xx(r) == ~r.exc /\ r.status >= 500
Is200(r) == ~r.exc /\ r.status = 200

\* the request that the current auth_vars s and the referer of the call would give
BuiltFrom(q, s, referer) ==
    /\ q.url = urljoin(Get(s, "base_url"), Endpoint)
    /\ q.headers = get_auth_headers(s, referer)

\* C1: inside one make_request call, every request issued after a credential
\* refresh of that call carries the URL and headers built from the Credential
\* Set as it is when the request is issued, never from a replaced one.
C1_NoStaleRequestAfterRefresh ==
    \A c \in Threads : \A i \in 1..Len(th[c].requests) :
        LET q == th[c].requests[i]
        IN  q.refreshes > 0 => BuiltFrom(q, q.auth, th[c].referer)

\* C2: when every attempt is answered with a status >= 500, the call issues
\* exactly max_retries requests and ends with ServerError, raised inside the
\* loop at the attempt whose count reached max_retries.
C2_ServerErrorAfterMaxRetries ==
    \A c \in Threads :
        LET f == th[c]
        IN  (/\ f.pc = "done"
             /\ f.responses # << >>
             /\ \A i \in 1..Len(f.responses) : Is5xx(f.responses[i]))
            => /\ Len(f.requests) = client.max_retries
               /\ f.outcome = [kind |-> "ServerError", at |-> client.max_retries,
                               inLoop |-> TRUE]

\* C3: every request issued is the one built from a Credential Set that
\* passes validate_auth, also when that set was installed by a reload.
C3_RequestsFromValidatedSet ==
    \A c \in Threads : \A i \in 1..Len(th[c].requests) :
        \E s \in installed :
            /\ validate_auth(s)
            /\ BuiltFrom(th[c].requests[i], s, th[c].referer)

\* C4: constructing with an invalid Credential Set, the empty mapping
\* included, fails with InvalidConfig before any refresh; no client results.
C4_InvalidSetFailsConstruction ==
    (client.state # "none" /\ client.given /\ ~validate_auth(client.arg))
        => /\ client.state = "failed"
           /\ client.error = "InvalidConfig"
           /\ client.refreshes = 0

\* the responses of a frame are 401 on the first max_retries - 1 attempts
\* and 200 on attempt max_retries
AuthThenOk(f) ==
    /\ client.max_retries >= 1
    /\ Len(f.responses) = client.max_retries
    /\ \A i \in 1..(client.max_retries - 1) : Is401(f.responses[i])
    /\ Is200(f.responses[client.max_retries])

\* C5: with 401 on the first max_retries - 1 attempts and 200 on attempt
\* max_retries, the call returns the body of the 200 response and has invoked
\* the credential refresh exactly max_retries - 1 times.
C5_SuccessAfterAuthRetries ==
    \A c \in Threads :
        LET f == th[c]
        IN  AuthThenOk(f)
            => /\ f.pc = "done"
               /\ f.outcome.kind = "Success"
               /\ f.result.value = f.responses[client.max_retries].text
               /\ f.result.kind = (IF IsJson(f.result.value) THEN "json" ELSE "text")
               /\ Len(f.requests) = client.max_retries
               /\ f.refreshes = client.max_retries - 1

C5_Witness ==
    \E c \in Threads : AuthThenOk(th[c]) /\ client.max_retries >= 3

\* C6: with 401 on every attempt the call issues exactly max_retries requests
\* and ends with AuthExpired; the re-capture guidance is emitted before the
\* failure is raised, and in no call that ends otherwise.
C6_AuthExpiredWithGuidance ==
    \A c \in Threads :
        LET f == th[c]
        IN  /\ (/\ f.pc = "done"
                /\ f.responses # << >>
                /\ \A i \in 1..Len(f.responses) : Is401(f.responses[i]))
               => /\ Len(f.requests) = client.max_retries
                  /\ f.outcome = [kind |-> "AuthExpired", at |-> client.max_retries,
                                  inLoop |-> TRUE]
            /\ f.outcome.kind = "AuthExpired" => f.guidance
            /\ f.guidance => \/ f.pc = "l156" /\ f.outcome = NoOutcome
                             \/ f.pc = "done" /\ f.outcome.kind = "AuthExpired"

C6_Witness ==
    \E c \in Threads :
        /\ th[c].outcome.kind = "AuthExpired"
        /\ Len(th[c].requests) >= 3
        /\ th[c].refreshes >= 2

\* the failure kind of a status that is neither 200, 401 nor >= 500
TerminalKind(status) ==
    IF status = 403 THEN "Forbidden"
    ELSE IF status = 404 THEN "NotFound"
    ELSE "UnexpectedStatus"

IsTerminalStatus(r) == ~r.exc /\ r.status \notin {200, 401} /\ r.status < 500

\* C7: a status other than 200, 401 and >= 500 ends the call at the attempt
\* that received it, with the matching fatal error and no request, sleep or
\* refresh after it.
C7_TerminalStatusEndsCall ==
    \A c \in Threads :
        LET f == th[c]
        IN  \A i \in 1..Len(f.responses) :
                IsTerminalStatus(f.responses[i])
                => /\ i = Len(f.responses)
                   /\ Len(f.requests) = i
                   /\ f.pc = "done"
                   /\ f.outcome = [kind |-> TerminalKind(f.responses[i].status),
                                   at |-> i, inLoop |-> TRUE]
                   /\ \A j \in 1..Len(f.sleeps) : f.sleeps[j].after < i
                   /\ f.refreshes = Cardinality({k \in 1..(i - 1) : Is401(f.responses[k])})

C7_Witness ==
    \E c \in Threads :
        /\ Len(th[c].responses) >= 2
        /\ th[c].responses[Len(th[c].responses)].status = 403
        /\ th[c].pc = "done"

\* C8: a transport failure on attempt k is followed by a sleep of exactly 1
\* and a retry without refresh when k < max_retries, and ends the call with
\* Transport without a sleep when k has reached max_retries.
C8_TransportFailureRetry ==
    \A c \in Threads :
        LET f == th[c]
            SleepsAfter(i) == {j \in 1..Len(f.sleeps) : f.sleeps[j].after = i}
        IN  /\ \A i \in 1..Len(f.responses) :
                  f.responses[i].exc
                  => IF i < client.max_retries
                     THEN /\ Cardinality(SleepsAfter(i)) = 1
                          /\ \A j \in SleepsAfter(i) :
                                f.sleeps[j].units = 1 /\ f.sleeps[j].cause = "transport"
                          /\ i = Len(f.responses) => f.pc \in {"loop", "await"}
                     ELSE /\ i = Len(f.responses)
                          /\ f.pc = "done"
                          /\ f.outcome = [kind |-> "Transport", at |-> i, inLoop |-> TRUE]
                          /\ SleepsAfter(i) = {}
            /\ f.refreshes <= Cardinality({k \in 1..Len(f.responses) : Is401(f.responses[k])})
            /\ (/\ f.pc = "done"
                /\ f.responses # << >>
                /\ \A i \in 1..Len(f.responses) : f.responses[i].exc)
               => /\ Len(f.requests) = client.max_retries
                  /\ Len(f.sleeps) = client.max_retries - 1

C8_Witness ==
    \E c \in Threads :
        /\ th[c].outcome.kind = "Transport"
        /\ Len(th[c].responses) >= 3
        /\ \A i \in 1..Len(th[c].responses) : th[c].responses[i].exc

\* C9: with concurrent calls on one client, the URL and the headers of every
\* request come from one and the same Credential Set that the client held.
C9_NoMixedCredentialSet ==
    \A c \in Threads : \A i \in 1..Len(th[c].requests) :
        \E s \in installed : BuiltFrom(th[c].requests[i], s, th[c].referer)

RECURSIVE Pow2(_)
Pow2(k) == IF k = 0 THEN 1 ELSE 2 * Pow2(k - 1)

\* the sleeps the claim prescribes for a sequence of responses, from attempt i on
RECURSIVE ExpectedSleeps(_, _, _)
ExpectedSleeps(resp, i, max_retries) ==
    IF i > Len(resp) THEN << >>
    ELSE LET r == resp[i]
             here == IF Is401(r) /\ i < max_retries THEN <<Pow2(i)>>
                     ELSE IF Is5xx(r) THEN <<1>>
                     ELSE IF r.exc /\ i < max_retries THEN <<1>>
                     ELSE << >>
         IN  here \o ExpectedSleeps(resp, i + 1, max_retries)

\* C10: the sleep after the k-th attempt is 2^k when it returned 401 with
\* attempts remaining, and 1 after a 5xx response or a retried transport
\* failure, whatever k is.
C10_BackoffDurations ==
    \A c \in Threads :
        LET f == th[c]
        IN  [j \in 1..Len(f.sleeps) |-> f.sleeps[j].units]
                = ExpectedSleeps(f.responses, 1, client.max_retries)

C10_Witness ==
    \E c \in Threads :
        /\ Len(th[c].sleeps) >= 2
        /\ th[c].sleeps[1].cause = "5xx"
        /\ th[c].sleeps[2] = [after |-> 2, cause |-> "401", units |-> 4]

\* C11: a 200 on the first attempt makes the call return the parsed JSON
\* body, or the raw text when the body is not JSON, after exactly one request,
\* with no refresh and no sleep; only a 200 yields a success result.
C11_FirstAttemptSuccess ==
    \A c \in Threads :
        LET f == th[c]
            n == Len(f.responses)
        IN  /\ (n >= 1 /\ Is200(f.responses[1]))
               => /\ f.pc = "done"
                  /\ f.outcome = [kind |-> "Success", at |-> 1, inLoop |-> TRUE]
                  /\ f.result = [kind |-> IF f.responses[1].text = "{\"ok\": true}"
                                          THEN "json" ELSE "text",
                                 value |-> f.responses[1].text]
                  /\ Len(f.requests) = 1
                  /\ f.refreshes = 0
                  /\ f.sleeps = << >>
            /\ (f.outcome.kind = "Success" \/ f.result # NoResult)
               => /\ n >= 1
                  /\ Is200(f.responses[n])
                  /\ f.outcome.kind = "Success"
                  /\ f.result.value = f.responses[n].text

C11_Witness ==
    \E c \in Threads :
        /\ Len(th[c].responses) = 1
        /\ Is200(th[c].responses[1])
        /\ th[c].result.kind = "json"
        /\ client.max_retries >= 2

\* C12: whatever the outcome of the previous call on the client, the next
\* call starts with attempt count 0: its requests are numbered from 1, it may
\* issue up to max_retries of them, and the sleep after its first 401 is 2^1.
C12_NoRetryStateCarriedOver ==
    \A c \in Threads :
        LET f == th[c]
        IN  f.prev.kind # "none"
            => /\ (f.pc = "loop" /\ f.requests = << >>) => f.attempt = 0
               /\ \A i \in 1..Len(f.requests) : f.requests[i].attempt = i
               /\ f.pc = "done" => Len(f.requests) >= 1
               /\ (/\ Len(f.responses) >= 1
                   /\ Is401(f.responses[1])
                   /\ client.max_retries > 1)
                  => f.sleeps[1] = [after |-> 1, cause |-> "401", units |-> 2]

C12_Witness ==
    \E c \in Threads :
        /\ th[c].prev.kind \in {"AuthExpired", "RetriesExhausted", "Transport"}
        /\ th[c].prev.at >= 2
        /\ Len(th[c].requests) = client.max_retries
        /\ Is401(th[c].responses[1])

\* the failures that make_request raises as PowerSetAPIError (lines 156-178)
APIErrorKinds ==
    {"AuthExpired", "Forbidden", "NotFound", "UnexpectedStatus", "Transport",
     "RetriesExhausted"}

IsRetryable(r) == r.exc \/ Is401(r) \/ Is5xx(r)

C14_FirstRequestFromEagerReload ==
    /\ client.state = "ready"
       => /\ client.refreshes = 1
          /\ validate_auth(client.validated)
          /\ ncalls = 0 => client.auth_vars = persisted /\ client.loaded = persisted
          /\ (artifact.kind = "ok" /\ artifact.mtime = marker) => persisted = artifact.set
    /\ \A c \in Threads :
          (ncalls = 1 /\ Len(th[c].requests) >= 1)
          => BuiltFrom(th[c].requests[1], client.loaded, th[c].referer)

C14_Witness ==
    \E c \in Threads :
        /\ ncalls = 1
        /\ Len(th[c].requests) >= 1
        /\ client.given
        /\ validate_auth(client.arg)
        /\ validate_auth(client.loaded)
        /\ client.arg # client.loaded

\* C15: with concurrent calls on one client, the referer header of every
\* request is the referer override of the call that issued it, or the default
\* referer of a Credential Set when that call gave none.
C15_RefererOfOwnCall ==
    \A c \in Threads : \A i \in 1..Len(th[c].requests) :
        LET sent == th[c].requests[i].headers["referer"]
        IN  IF th[c].referer = NoReferer
            THEN \E s \in installed : sent = Get(s, "referer")
            ELSE sent = th[c].referer

C15_Witness ==
    /\ th["t1"].requests # << >>
    /\ th["t2"].requests # << >>
    /\ th["t1"].pc = "await"
    /\ th["t2"].pc = "await"
    /\ th["t1"].referer # th["t2"].referer

\* C16: a POST or PUT request whose payload is a dict, an empty one included,
\* is sent with the JSON serialization of the payload and the content-type
\* application/json; every other request has no content-type added and
\* carries the payload unchanged.
C16_ContentTypeNegotiation ==
    \A c \in Threads : \A i \in 1..Len(th[c].requests) :
        LET q == th[c].requests[i]
            p == th[c].payload_arg
        IN  IF q.method \in {"POST", "PUT"} /\ p.type = "dict"
            THEN /\ q.data = [type |-> "str", items |-> << >>,
                              text |-> IF p.items = << >> THEN "{}" ELSE "{\"k\": 1}"]
                 /\ "content-type" \in DOMAIN q.headers
                 /\ q.headers["content-type"] = "application/json"
            ELSE /\ "content-type" \notin DOMAIN q.headers
                 /\ q.data = p


\* C16 (amended): a POST or PUT request whose payload is non-empty is sent
\* with the content-type application/json, a dict serialized to JSON and a
\* string unchanged; every other request (another method, or a payload that
\* is None or empty) has no content-type added and carries the payload
\* unchanged.
C16_ContentTypeForNonEmptyPayload ==
    \A c \in Threads : \A i \in 1..Len(th[c].requests) :
        LET q == th[c].requests[i]
            p == th[c].payload_arg
            nonEmpty == (p.type = "dict" /\ Len(p.items) > 0)
                        \/ (p.type = "str" /\ p.text # "")
        IN  IF q.method \in {"POST", "PUT"} /\ nonEmpty
            THEN /\ "content-type" \in DOMAIN q.headers
                 /\ q.headers["content-type"] = "application/json"
                 /\ q.data = IF p.type = "dict"
                             THEN [type |-> "str", items |-> << >>, text |-> "{\"k\": 1}"]
                             ELSE p
            ELSE /\ "content-type" \notin DOMAIN q.headers
                 /\ q.data = p

C16_Witness ==
    \E c \in Threads :
        /\ Len(th[c].requests) >= 1
        /\ th[c].requests[1].method = "PUT"
        /\ th[c].payload_arg = DictPayload
        /\ th[c].requests[1].data.type = "str"


\* C17: whatever the transport answers, a call reaches its terminal state
\* inside the attempt loop: the failure raised after the loop ('Max retries
\* exceeded') is never the outcome of a call.
C17_NoFallthroughOutcome ==
    \A c \in Threads :
        /\ th[c].outcome.kind # "RetriesExhausted"
        /\ th[c].pc = "done" => th[c].outcome.inLoop

\* C18: no sleep follows the last request of a call: a finished call that
\* issued n requests has slept exactly n - 1 times.
C18_NoSleepAfterLastRequest ==
    \A c \in Threads :
        th[c].pc = "done" => Len(th[c].sleeps) = Len(th[c].requests) - 1


InProgress(c) == th[c].pc \notin {"idle", "done"}

\* C19: every call terminates, having issued at least 1 and at most
\* max_retries requests, one at a time; the attempt counter is shared by all
\* failure kinds, so the requests of a call are numbered 1, 2, ... max_retries.
C19_BoundedSequentialAttempts ==
    /\ [](\A c \in Threads :
            LET f == th[c]
            IN  /\ Len(f.requests) <= client.max_retries
                /\ f.pc = "done" => Len(f.requests) >= 1
                /\ Len(f.requests) - Len(f.responses) = (IF f.pc = "await" THEN 1 ELSE 0)
                /\ \A i \in 1..Len(f.requests) : f.requests[i].attempt = i)
    /\ \A c \in Threads : InProgress(c) ~> (th[c].pc = "done")

C19_Witness ==
    \E c \in Threads :
        /\ th[c].pc = "done"
        /\ Len(th[c].requests) = 3
        /\ th[c].responses[1].exc
        /\ Is401(th[c].responses[2])
        /\ Is5xx(th[c].responses[3])


\* the 401 answers of a frame that left attempts remaining
RetriedAuthFailures(f) ==
    {i \in 1..Len(f.responses) : Is401(f.responses[i]) /\ i < client.max_retries}

\* C20: during make_request the credential refresh is invoked, and the
\* Credential Set of the client replaced, only after a 401 with attempts
\* remaining: never after a 5xx answer, a transport failure or a terminal
\* attempt.
C20_RefreshOnlyAfterRetried401 ==
    /\ [](\A c \in Threads :
            th[c].refreshes = Cardinality(RetriedAuthFailures(th[c]))
                              - (IF th[c].pc = "l67" THEN 1 ELSE 0))
    /\ [][(client.state = "ready"
           /\ (client'.auth_vars # client.auth_vars \/ persisted' # persisted))
          => \E c \in Threads :
                /\ th[c].pc \in {"l67", "l68"}
                /\ Len(th[c].responses) \in RetriedAuthFailures(th[c])]_vars

C20_Witness ==
    \E c \in Threads :
        /\ th[c].pc = "done"
        /\ Len(th[c].responses) = 3
        /\ Is5xx(th[c].responses[1])
        /\ Is401(th[c].responses[2])
        /\ th[c].responses[3].exc
        /\ th[c].refreshes = 1
        /\ client.auth_vars # client.loaded

----------------------------------------------------------------------------
(* Log levels *)

HasLevel(f, level) == \E i \in 1..Len(f.log) : f.log[i] = level

\* C21: make_request logs by severity: a failure that is retried is logged
\* at warning and not at error, and an error-level record is emitted in a
\* call if and only if the call ends in a fatal failure.
C21_ErrorRecordIffFatal ==
    \A c \in Threads :
        /\ th[c].pc = "done"
            => (HasLevel(th[c], "error") <=> th[c].outcome.kind # "Success")
        /\ th[c].pc = "done" /\ th[c].outcome.kind = "Success"
            => \A i \in 1..Len(th[c].log) : th[c].log[i] \in {"debug", "warning"}

----------------------------------------------------------------------------
(* Database storage of a site: process_site_for_database *)

apivars == <<persisted, marker, artifact, captures, client, installed, threads, ncalls, th>>

SiteKey == "S1"

\* the elements of json_data['hardware'] and json_data['alerts']: a dict with
\* a key, a dict without one (get('key') is None), and a value that is not a
\* dict
ItemGood == [type |-> "dict", key |-> "k1"]
ItemNoKey == [type |-> "dict", key |-> "None"]
ItemNotADict == [type |-> "str", key |-> "None"]
Items == {ItemGood, ItemNoKey, ItemNotADict}

ItemLists == UNION {[1..n -> Items] : n \in 0..MaxItems}

\* json_data['modeling']: {} (or absent), a dict, or a value that is not a dict
Modelings == {"empty", "dict", "str"}

JsonData == [hardware : ItemLists, alerts : ItemLists, modeling : Modelings]

\* insert_hardware / insert_alert, lines 108-168: True when the connection
\* opens and the INSERT OR REPLACE is accepted (the key column is NOT NULL),
\* False on every exception
InsertKeyed(key, up) == up /\ key # "None"

\* insert_modeling, lines 170-198: site_key is always present
InsertModeling(up) == up

RecordInsert(f, table, ok) ==
    [f EXCEPT !.inserts = Append(@, [table |-> table, ok |-> ok])]

\* lines 51-53: an exception reaches the handler of process_site_for_database
ReturnFalse(f) == [f EXCEPT !.result = "False", !.pc = "l263"]

\* main, line 263: the database step of a fetched site
ProcessSite(jd) ==
    /\ proc.pc = "idle"
    /\ proc' = [proc EXCEPT !.pc = "hardware", !.json_data = jd, !.i = 1]
    /\ UNCHANGED db
    /\ UNCHANGED apivars

\* lines 34-36 and 58-73: one iteration over hardware_data; the result of
\* insert_hardware is dropped; the handler of line 73 calls hardware.get again
HardwareStep(up) ==
    /\ proc.pc = "hardware"
    /\ LET hw == proc.json_data.hardware IN
       IF proc.i > Len(hw)
       THEN /\ proc' = [proc EXCEPT !.pc = "alerts", !.i = 1]
            /\ UNCHANGED db
       ELSE IF hw[proc.i].type # "dict"
            THEN /\ proc' = ReturnFalse(proc)
                 /\ UNCHANGED db
            ELSE LET ok == InsertKeyed(hw[proc.i].key, up) IN
                 /\ proc' = [RecordInsert(proc, "hardware", ok) EXCEPT !.i = @ + 1]
                 /\ db' = IF ok THEN [db EXCEPT !.hardware = @ \cup {<<SiteKey, hw[proc.i].key>>}]
                          ELSE db
    /\ UNCHANGED apivars

\* lines 39-41 and 78-91: one iteration over alert_data
AlertStep(up) ==
    /\ proc.pc = "alerts"
    /\ LET al == proc.json_data.alerts IN
       IF proc.i > Len(al)
       THEN /\ proc' = [proc EXCEPT !.pc = "modeling", !.i = 1]
            /\ UNCHANGED db
       ELSE IF al[proc.i].type # "dict"
            THEN /\ proc' = ReturnFalse(proc)
                 /\ UNCHANGED db
            ELSE LET ok == InsertKeyed(al[proc.i].key, up) IN
                 /\ proc' = [RecordInsert(proc, "alerts", ok) EXCEPT !.i = @ + 1]
                 /\ db' = IF ok THEN [db EXCEPT !.alerts = @ \cup {<<SiteKey, al[proc.i].key>>}]
                          ELSE db
    /\ UNCHANGED apivars

\* lines 44-46 and 96-108: the modeling record; the handler of line 108 uses
\* site_key only, so every exception ends there
ModelingStep(up) ==
    /\ proc.pc = "modeling"
    /\ IF proc.json_data.modeling = "dict"
       THEN LET ok == InsertModeling(up) IN
            /\ proc' = [RecordInsert(proc, "modeling", ok) EXCEPT !.pc = "l48"]
            /\ db' = IF ok THEN [db EXCEPT !.modeling = @ \cup {SiteKey}] ELSE db
       ELSE /\ proc' = [proc EXCEPT !.pc = "l48"]
            /\ UNCHANGED db
    /\ UNCHANGED apivars

\* lines 48-49: return True
ReturnTrue ==
    /\ proc.pc = "l48"
    /\ proc' = [proc EXCEPT !.result = "True", !.pc = "l263"]
    /\ UNCHANGED db
    /\ UNCHANGED apivars

\* main, lines 263-266: 'Database updated' or 'Database update failed'
ReportOutcome ==
    /\ proc.pc = "l263"
    /\ proc' = [proc EXCEPT !.pc = "done",
                            !.report = IF proc.result = "True" THEN "updated" ELSE "failed"]
    /\ UNCHANGED db
    /\ UNCHANGED apivars

InitDb ==
    /\ db = EmptyDb
    /\ proc = IdleProc
    /\ persisted = CredA
    /\ marker = 0
    /\ artifact = NoArtifact
    /\ captures = 0
    /\ client = NoClient
    /\ installed = {}
    /\ ncalls = 0
    /\ th = [c \in Threads |-> IdleFrame]
    /\ threads = {"t1"}

NextDb ==
    \/ \E jd \in JsonData : ProcessSite(jd)
    \/ \E up \in BOOLEAN : HardwareStep(up)
    \/ \E up \in BOOLEAN : AlertStep(up)
    \/ \E up \in BOOLEAN : ModelingStep(up)
    \/ ReturnTrue
    \/ ReportOutcome

SpecDb == InitDb /\ [][NextDb]_vars

\* the records of the site: every element of hardware and alerts, and the
\* modeling value when it is not empty
RecordCount(jd) ==
    Len(jd.hardware) + Len(jd.alerts) + (IF jd.modeling = "empty" THEN 0 ELSE 1)

\* C22: process_site_for_database returns True, and the caller reports
\* 'Database updated', only if every hardware, alert and modeling record of
\* the site was inserted; a failed insert makes it return False.
C22_TrueOnlyIfAllInserted ==
    (proc.pc = "done" /\ proc.report = "updated")
        => /\ Len(proc.inserts) = RecordCount(proc.json_data)
           /\ \A i \in 1..Len(proc.inserts) : proc.inserts[i].ok

====
